---- MODULE Spec2Model ----
(***************************************************************************)
(* Model of the workout-log plugin: the callbacks that createCallbacks     *)
(* builds around `currentParsed` (src/src/main.ts 300-546), the workout    *)
(* mutation functions of the serializer (src/src/main.ts 581-687) and the  *)
(* TimerManager they drive.                                                *)
(*                                                                         *)
(* Indices are the code's 0-based indices; exercise i of a workout w is    *)
(* w.exercises[i + 1].  An optional field (`x?: T`) is a set with at most  *)
(* one element: {} is undefined, {v} is the value v.                       *)
(***************************************************************************)
EXTENDS Integers, Sequences, FiniteSets, TLC

\* Bounds of the model.
MaxTime == 1          \* the clock runs over 0..MaxTime seconds
MaxExercises == 3     \* add-set / add-rest stop growing the list here
MaxSeconds == 3700    \* durations formatted as a time literal: 0..MaxSeconds
MaxClock == 4         \* the clock of the pause/resume specification: 0..MaxClock
MaxShown == 4         \* elapsed times and targets shown by the timer: 0..MaxShown

VARIABLES
    currentParsed,      \* main.ts:307  the closure's in-memory workout
    hasPendingChanges,  \* main.ts:308
    instances,          \* TimerManager: workout id -> TimerInstance
    now,                \* the wall clock, in seconds
    lastWrite,          \* the latest updateFile call: the workout written, the
                        \* callback that wrote it, and what the timer reported
                        \* for this block at that moment
    rendered,           \* main.ts:289-297  the object `parsed` that both
                        \* createCallbacks and renderWorkout were given
    content,            \* the lines of the note (vault.process, main.ts:972)
    sectionInfo,        \* main.ts:271  the block's place, as the callbacks hold it
    applied,            \* a mutation function applied to a workout, on its own
    literal             \* a number of seconds, formatted and parsed back

\* The callbacks' own state.
callbackVars == <<currentParsed, hasPendingChanges, instances, now, lastWrite>>

\* What the host holds: the rendered object and the note.
hostVars == <<rendered, content, sectionInfo>>

\* The variables of the function-level specifications.
pureVars == <<applied, literal>>

\* The callbacks leave the other variables alone.
OnlyCallbacks == UNCHANGED <<hostVars, pureVars>>

vars == <<currentParsed, hasPendingChanges, instances, now, lastWrite,
          rendered, content, sectionInfo, applied, literal>>

\* main.ts:272  `${ctx.sourcePath}:${sectionInfo?.lineStart ?? 0}`
WorkoutId == "note.md:0"

-----------------------------------------------------------------------------
(* Strings                                                                 *)

\* String.prototype.toLowerCase on the parameter keys that occur.
toLowerCase(key) ==
    CASE key = "Duration" -> "duration"
      [] key = "Weight"   -> "weight"
      [] key = "Reps"     -> "reps"
      [] OTHER            -> key

\* parser/exercise formatDurationHuman: "<m>m <s>s", the minutes only when
\* there are any.
formatDurationHuman(seconds) ==
    LET mins == seconds \div 60
        secs == seconds % 60
    IN  IF mins > 0
        THEN ToString(mins) \o "m " \o ToString(secs) \o "s"
        ELSE ToString(secs) \o "s"

\* String(n).padStart(2, '0')
padStart2(n) == IF n < 10 THEN "0" \o ToString(n) ELSE ToString(n)

\* main.ts:548-555, for a clock that counts seconds from 2026-01-01 00:00.
formatStartDate(date) ==
    "2026-01-01 " \o padStart2((date \div 3600) % 24) \o ":"
                  \o padStart2((date \div 60) % 60)

-----------------------------------------------------------------------------
(* Array helpers                                                           *)

\* The indices of an array.
Indices(arr) == 0 .. (Len(arr) - 1)

\* arr[i] is not undefined.
HasIndex(arr, i) == i \in Indices(arr)

\* Array.prototype.findIndex: the lowest index in S, or -1.
findIndex(S) == IF S = {} THEN -1 ELSE CHOOSE i \in S : \A j \in S : i <= j

\* exercises.findIndex(e => e.state === state)
findIndexOfState(exercises, state) ==
    findIndex({i \in Indices(exercises) : exercises[i + 1].state = state})

\* findNextPending without its `i > exerciseIndex`: the scan starts at the
\* head of the list.
findNextPendingFromHead(exercises, exerciseIndex) ==
    findIndex({i \in Indices(exercises) : exercises[i + 1].state = "pending"})

\* exercises.findIndex((e, i) => i > exerciseIndex && e.state === 'pending')
findNextPending(exercises, exerciseIndex) ==
    findIndex({i \in Indices(exercises) :
                  i > exerciseIndex /\ exercises[i + 1].state = "pending"})

\* params.find(p => p.key.toLowerCase() === 'duration'): its index, or -1.
findDurationParam(params) ==
    findIndex({k \in Indices(params) : toLowerCase(params[k + 1].key) = "duration"})

\* Array.prototype.splice(at, 0, item)
spliceIn(arr, at, item) ==
    SubSeq(arr, 1, at) \o <<item>> \o SubSeq(arr, at + 1, Len(arr))

-----------------------------------------------------------------------------
(* Workout mutation functions (serializer)                                 *)

\* main.ts:581-597: the first parameter whose key is exactly paramKey.
updateParamValue(parsed, exerciseIndex, paramKey, newValue) ==
    IF ~HasIndex(parsed.exercises, exerciseIndex) THEN parsed
    ELSE
        LET params == parsed.exercises[exerciseIndex + 1].params
            k == findIndex({m \in Indices(params) : params[m + 1].key = paramKey})
        IN  IF k >= 0
            THEN [parsed EXCEPT
                    !.exercises[exerciseIndex + 1].params[k + 1].value = newValue]
            ELSE parsed

\* updateExerciseState with an index that counts from the end when it is
\* negative (Array.prototype.at), in place of `exercises[exerciseIndex]`.
updateExerciseStateFromEnd(parsed, exerciseIndex, newState) ==
    LET at == IF exerciseIndex < 0
              THEN Len(parsed.exercises) + exerciseIndex
              ELSE exerciseIndex
    IN  IF ~HasIndex(parsed.exercises, at) THEN parsed
        ELSE [parsed EXCEPT !.exercises[at + 1].state = newState]

\* main.ts:600-611
updateExerciseState(parsed, exerciseIndex, newState) ==
    IF ~HasIndex(parsed.exercises, exerciseIndex) THEN parsed
    ELSE [parsed EXCEPT !.exercises[exerciseIndex + 1].state = newState]

\* main.ts:614-624
lockAllFields(parsed) ==
    [parsed EXCEPT !.exercises =
        [i \in DOMAIN @ |->
            [@[i] EXCEPT !.params =
                [k \in DOMAIN @ |-> [@[k] EXCEPT !.editable = FALSE]]]]]

\* setRecordedDuration without its `durationParam.editable = false`
\* (main.ts:675): an existing Duration parameter keeps its brackets.
setRecordedDurationKeepEditable(parsed, exerciseIndex, durationStr) ==
    IF ~HasIndex(parsed.exercises, exerciseIndex) THEN parsed
    ELSE
        LET exercise == parsed.exercises[exerciseIndex + 1]
            d == findDurationParam(exercise.params)
            params ==
                IF d >= 0
                THEN [exercise.params EXCEPT ![d + 1].value = durationStr]
                ELSE Append(exercise.params,
                            [key |-> "Duration", value |-> durationStr,
                             editable |-> FALSE, unit |-> {}])
        IN  [parsed EXCEPT !.exercises[exerciseIndex + 1] =
                [exercise EXCEPT !.params = params,
                                 !.recordedDuration = {durationStr}]]

\* setRecordedDuration taking the last parameter whose key is "duration",
\* where Array.prototype.find (main.ts:671) takes the first.
setRecordedDurationLastMatch(parsed, exerciseIndex, durationStr) ==
    IF ~HasIndex(parsed.exercises, exerciseIndex) THEN parsed
    ELSE
        LET exercise == parsed.exercises[exerciseIndex + 1]
            durations == {k \in Indices(exercise.params) :
                            toLowerCase(exercise.params[k + 1].key) = "duration"}
            params ==
                IF durations # {}
                THEN LET d == CHOOSE k \in durations : \A m \in durations : m <= k
                     IN  [exercise.params EXCEPT ![d + 1].value = durationStr,
                                                 ![d + 1].editable = FALSE]
                ELSE Append(exercise.params,
                            [key |-> "Duration", value |-> durationStr,
                             editable |-> FALSE, unit |-> {}])
        IN  [parsed EXCEPT !.exercises[exerciseIndex + 1] =
                [exercise EXCEPT !.params = params,
                                 !.recordedDuration = {durationStr}]]

\* main.ts:661-687
setRecordedDuration(parsed, exerciseIndex, durationStr) ==
    IF ~HasIndex(parsed.exercises, exerciseIndex) THEN parsed
    ELSE
        LET exercise == parsed.exercises[exerciseIndex + 1]
            d == findDurationParam(exercise.params)
            params ==
                IF d >= 0
                THEN [exercise.params EXCEPT ![d + 1].value = durationStr,
                                             ![d + 1].editable = FALSE]
                ELSE Append(exercise.params,
                            [key |-> "Duration", value |-> durationStr,
                             editable |-> FALSE, unit |-> {}])
        IN  [parsed EXCEPT !.exercises[exerciseIndex + 1] =
                [exercise EXCEPT !.params = params,
                                 !.recordedDuration = {durationStr}]]

\* addSet without its last loop (main.ts:651-655): the exercises after the
\* new one keep their lineIndex.
addSetKeepsLineIndex(parsed, exerciseIndex) ==
    IF ~HasIndex(parsed.exercises, exerciseIndex) THEN parsed
    ELSE
        LET exercise == parsed.exercises[exerciseIndex + 1]
            newParams ==
                [k \in DOMAIN exercise.params |->
                    LET param == exercise.params[k]
                    IN  IF toLowerCase(param.key) = "duration" /\ ~param.editable
                        THEN [param EXCEPT !.editable = (exercise.targetDuration # {})]
                        ELSE param]
            newExercise ==
                [exercise EXCEPT !.state = "pending",
                                 !.recordedDuration = {},
                                 !.lineIndex = exercise.lineIndex + 1,
                                 !.params = newParams]
        IN  [parsed EXCEPT !.exercises =
                spliceIn(parsed.exercises, exerciseIndex + 1, newExercise)]

\* main.ts:627-658
addSet(parsed, exerciseIndex) ==
    IF ~HasIndex(parsed.exercises, exerciseIndex) THEN parsed
    ELSE
        LET exercise == parsed.exercises[exerciseIndex + 1]
            newParams ==
                [k \in DOMAIN exercise.params |->
                    LET param == exercise.params[k]
                    IN  IF toLowerCase(param.key) = "duration" /\ ~param.editable
                        THEN [param EXCEPT !.editable = (exercise.targetDuration # {})]
                        ELSE param]
            newExercise ==
                [exercise EXCEPT !.state = "pending",
                                 !.recordedDuration = {},
                                 !.lineIndex = exercise.lineIndex + 1,
                                 !.params = newParams]
            inserted == spliceIn(parsed.exercises, exerciseIndex + 1, newExercise)
        IN  [parsed EXCEPT !.exercises =
                [i \in DOMAIN inserted |->
                    IF i - 1 >= exerciseIndex + 2
                    THEN [inserted[i] EXCEPT !.lineIndex = @ + 1]
                    ELSE inserted[i]]]

\* serializer addRest: a pending "Rest" exercise with one Duration parameter,
\* the rest length as a time literal, inserted after exerciseIndex.
addRest(parsed, exerciseIndex, restDuration) ==
    IF ~HasIndex(parsed.exercises, exerciseIndex) THEN parsed
    ELSE
        LET exercise == parsed.exercises[exerciseIndex + 1]
            restExercise ==
                [state |-> "pending", name |-> "Rest",
                 params |-> <<[key |-> "Duration",
                               value |-> formatDurationHuman(restDuration),
                               editable |-> TRUE, unit |-> {}]>>,
                 targetDuration |-> {restDuration},
                 recordedDuration |-> {},
                 lineIndex |-> exercise.lineIndex + 1]
            inserted == spliceIn(parsed.exercises, exerciseIndex + 1, restExercise)
        IN  [parsed EXCEPT !.exercises =
                [i \in DOMAIN inserted |->
                    IF i - 1 >= exerciseIndex + 2
                    THEN [inserted[i] EXCEPT !.lineIndex = @ + 1]
                    ELSE inserted[i]]]

-----------------------------------------------------------------------------
(* TimerManager (timer/manager)                                            *)

\* isTimerRunning(id)
isTimerRunning(timers, id) == id \in DOMAIN timers

\* startWorkoutTimer(id, activeIndex): a new instance, overwriting any old one.
startWorkoutTimer(timers, id, activeIndex) ==
    (id :> [workoutStartTime    |-> now,
            exerciseStartTime   |-> now,
            exercisePausedTime  |-> 0,
            isPaused            |-> FALSE,
            pauseStartTime      |-> 0,
            activeExerciseIndex |-> activeIndex]) @@ timers

\* stopWorkoutTimer(id): the instance is deleted.
stopWorkoutTimer(timers, id) ==
    [k \in (DOMAIN timers) \ {id} |-> timers[k]]

\* advanceExercise(id, newIndex): the exercise clock restarts, unpaused.
advanceExercise(timers, id, newIndex) ==
    IF ~isTimerRunning(timers, id) THEN timers
    ELSE [timers EXCEPT ![id] =
            [@ EXCEPT !.exerciseStartTime   = now,
                      !.exercisePausedTime  = 0,
                      !.isPaused            = FALSE,
                      !.pauseStartTime      = 0,
                      !.activeExerciseIndex = newIndex]]

\* pauseExercise(id): nothing on a paused timer.
pauseExercise(timers, id) ==
    IF ~isTimerRunning(timers, id) \/ timers[id].isPaused THEN timers
    ELSE [timers EXCEPT ![id] = [@ EXCEPT !.isPaused = TRUE,
                                          !.pauseStartTime = now]]

\* resumeExercise(id): nothing on a running timer.
resumeExercise(timers, id) ==
    IF ~isTimerRunning(timers, id) \/ ~timers[id].isPaused THEN timers
    ELSE [timers EXCEPT ![id] =
            [@ EXCEPT !.exercisePausedTime = @ + (now - timers[id].pauseStartTime),
                      !.isPaused = FALSE,
                      !.pauseStartTime = 0]]

\* getActiveExerciseIndex(id)
getActiveExerciseIndex(timers, id) == timers[id].activeExerciseIndex

\* setActiveExerciseIndex(id, idx): only the index changes, no clock restarts.
setActiveExerciseIndex(timers, id, idx) ==
    IF ~isTimerRunning(timers, id) THEN timers
    ELSE [timers EXCEPT ![id].activeExerciseIndex = idx]

\* The elapsed times of an instance at time t.
timerStateAt(instance, t) ==
    [workoutElapsed  |-> t - instance.workoutStartTime,
     exerciseElapsed |-> t - instance.exerciseStartTime
                           - instance.exercisePausedTime
                           - (IF instance.isPaused
                              THEN t - instance.pauseStartTime ELSE 0)]

\* getTimerState(id): null ({}) when no instance exists.
getTimerState(timers, id) ==
    IF ~isTimerRunning(timers, id) THEN {}
    ELSE {timerStateAt(timers[id], now)}

-----------------------------------------------------------------------------
(* The blocks a note can hold when the plugin renders it                   *)

\* README "restDuration: 45s"
RestDuration == 45

Param(key, value, editable, unit) ==
    [key |-> key, value |-> value, editable |-> editable, unit |-> unit]

\* - [ ] Squats | Weight: [60] kg | Reps: [10]
\* - [ ] Plank | Duration: [2s]
SampleExercises ==
    << [state |-> "pending", name |-> "Squats",
        params |-> <<Param("Weight", "60", TRUE, {"kg"}),
                     Param("Reps", "10", TRUE, {})>>,
        targetDuration |-> {}, recordedDuration |-> {}, lineIndex |-> 0],
       [state |-> "pending", name |-> "Plank",
        params |-> <<Param("Duration", "2s", TRUE, {})>>,
        targetDuration |-> {2}, recordedDuration |-> {}, lineIndex |-> 1] >>

\* The block as written: planned, every exercise pending.
PlannedWorkout ==
    [metadata  |-> [title |-> {"Morning Workout"}, state |-> "planned",
                    startDate |-> {}, duration |-> {},
                    restDuration |-> {RestDuration}],
     exercises |-> SampleExercises]

\* The same block as the file holds it after the workout was started: the
\* first exercise in progress.
StartedWorkout ==
    LET w == PlannedWorkout
    IN  [w EXCEPT !.metadata.state = "started",
                  !.metadata.startDate = {formatStartDate(0)},
                  !.exercises = [i \in DOMAIN @ |->
                        IF i = 1 THEN [@[i] EXCEPT !.state = "inProgress"]
                        ELSE @[i]]]

InitialWorkouts == {PlannedWorkout, StartedWorkout}

\* What a render reads from the timer of a block: the active exercise and
\* its elapsed seconds, or nothing when no timer runs for it.
timerReading(timers, id) ==
    IF ~isTimerRunning(timers, id) THEN {}
    ELSE {[activeExerciseIndex |-> timers[id].activeExerciseIndex,
           exerciseElapsed |-> timerStateAt(timers[id], now).exerciseElapsed]}

\* The callback that makes a write: its name, its exerciseIndex argument
\* (none for the workout-level callbacks) and the index of the exercise it
\* promoted to inProgress, or -1.
Call(by, exerciseIndex, promoted) ==
    [by |-> by, exerciseIndex |-> exerciseIndex, promoted |-> promoted]

\* updateFile's write (main.ts:310-317): the workout handed to the file
\* updater, with the timer as it is when the callback makes the call.
updateFile(newParsed, timers, call) ==
    [newParsed |-> newParsed, call |-> call,
     timer |-> timerReading(timers, WorkoutId)]

\* A freshly loaded plugin renders a block: createCallbacks (main.ts:300-308)
\* over the parsed text, no timer (main.ts:249).
\* A freshly built closure over the workout `parsed` (main.ts:307-308), the
\* plugin's timers as given, nothing written yet.
createCallbacks(parsed, timers) ==
    /\ currentParsed = parsed
    /\ hasPendingChanges = FALSE
    /\ instances = timers
    /\ now = 0
    /\ lastWrite = [newParsed |-> parsed,
                    call |-> Call("none", {}, -1), timer |-> {}]

\* The host side is not followed.
HostUnused == rendered = <<>> /\ content = <<>> /\ sectionInfo = {}

\* No function is applied on its own.
PureUnused == applied = <<>> /\ literal = <<>>

Init ==
    /\ \E parsed \in InitialWorkouts : createCallbacks(parsed, <<>>)
    /\ HostUnused
    /\ PureUnused

-----------------------------------------------------------------------------
(* Callbacks (createCallbacks)                                             *)

\* The exercise indices a callback is invoked with, in and out of range.
ExerciseIndexInputs == -1 .. Len(currentParsed.exercises)

\* main.ts:327-346
onStartWorkout ==
    LET firstPending == findIndexOfState(currentParsed.exercises, "pending")
        started == [currentParsed EXCEPT
                        !.metadata.state = "started",
                        !.metadata.startDate = {formatStartDate(now)}]
        newParsed == IF firstPending >= 0
                     THEN [started EXCEPT
                             !.exercises[firstPending + 1].state = "inProgress"]
                     ELSE started
    IN  /\ currentParsed' = newParsed
        /\ hasPendingChanges' = FALSE
        /\ lastWrite' = updateFile(newParsed, instances,
                                   Call("onStartWorkout", {}, firstPending))
        /\ instances' = startWorkoutTimer(instances, WorkoutId,
                            IF firstPending >= 0 THEN firstPending ELSE 0)
        /\ UNCHANGED now

\* main.ts:399-403 and 350-355: the workout is marked completed, with its
\* duration when the timer has one to give.
completeWorkout(parsed, timerState) ==
    [parsed EXCEPT
        !.metadata.state = "completed",
        !.metadata.duration =
            IF timerState # {}
            THEN {formatDurationHuman(
                     (CHOOSE ts \in timerState : TRUE).workoutElapsed)}
            ELSE @]

\* onFinishWorkout without its last statement (main.ts:362-363): the timer
\* is left running.
onFinishWorkoutKeepsTimer ==
    LET timerState == getTimerState(instances, WorkoutId)
        newParsed == lockAllFields(completeWorkout(currentParsed, timerState))
    IN  /\ currentParsed' = newParsed
        /\ hasPendingChanges' = FALSE
        /\ lastWrite' = updateFile(newParsed, instances,
                                   Call("onFinishWorkout", {}, -1))
        /\ UNCHANGED <<instances, now>>

\* main.ts:348-364
onFinishWorkout ==
    LET timerState == getTimerState(instances, WorkoutId)
        newParsed == lockAllFields(completeWorkout(currentParsed, timerState))
    IN  /\ currentParsed' = newParsed
        /\ hasPendingChanges' = FALSE
        /\ lastWrite' = updateFile(newParsed, instances,
                                   Call("onFinishWorkout", {}, -1))
        /\ instances' = stopWorkoutTimer(instances, WorkoutId)
        /\ UNCHANGED now

\* main.ts:371-379: the exercise clock is recorded when a timer runs.
recordDuration(parsed, exerciseIndex, timerState) ==
    IF timerState # {}
    THEN setRecordedDuration(parsed, exerciseIndex,
            formatDurationHuman(
                (CHOOSE ts \in timerState : TRUE).exerciseElapsed))
    ELSE parsed

\* advanceThenWrite in the other order: the file is updated first, the timer
\* advanced afterwards.
writeThenAdvance(newParsed, newIndex, call) ==
    /\ lastWrite' = updateFile(newParsed, instances, call)
    /\ instances' = advanceExercise(instances, WorkoutId, newIndex)

\* main.ts:393-396 (and 434-437, 465-468, 493-496): "Advance timer BEFORE
\* file update so re-render sees reset timer".
advanceThenWrite(newParsed, newIndex, call) ==
    LET advanced == advanceExercise(instances, WorkoutId, newIndex)
    IN  /\ instances' = advanced
        /\ lastWrite' = updateFile(newParsed, advanced, call)

\* main.ts:366-408
onExerciseFinish(exerciseIndex) ==
    IF ~HasIndex(currentParsed.exercises, exerciseIndex)
    THEN /\ hasPendingChanges' = FALSE
         /\ UNCHANGED <<currentParsed, instances, now, lastWrite>>
    ELSE
        LET timerState == getTimerState(instances, WorkoutId)
            recorded == recordDuration(currentParsed, exerciseIndex, timerState)
            completed == updateExerciseState(recorded, exerciseIndex, "completed")
            nextPending == findNextPending(completed.exercises, exerciseIndex)
        IN  IF nextPending >= 0
            THEN LET newParsed == updateExerciseState(completed, nextPending,
                                                      "inProgress")
                 IN  /\ currentParsed' = newParsed
                     /\ hasPendingChanges' = FALSE
                     /\ advanceThenWrite(newParsed, nextPending,
                            Call("onExerciseFinish", {exerciseIndex}, nextPending))
                     /\ UNCHANGED now
            ELSE LET finalState == getTimerState(instances, WorkoutId)
                     newParsed == lockAllFields(
                                      completeWorkout(completed, finalState))
                 IN  /\ currentParsed' = newParsed
                     /\ hasPendingChanges' = FALSE
                     /\ lastWrite' = updateFile(newParsed, instances,
                            Call("onExerciseFinish", {exerciseIndex}, -1))
                     /\ instances' = stopWorkoutTimer(instances, WorkoutId)
                     /\ UNCHANGED now

\* main.ts:410-438
onExerciseAddSet(exerciseIndex) ==
    IF ~HasIndex(currentParsed.exercises, exerciseIndex)
    THEN /\ hasPendingChanges' = FALSE
         /\ UNCHANGED <<currentParsed, instances, now, lastWrite>>
    ELSE
        LET timerState == getTimerState(instances, WorkoutId)
            recorded == recordDuration(currentParsed, exerciseIndex, timerState)
            completed == updateExerciseState(recorded, exerciseIndex, "completed")
            withSet == addSet(completed, exerciseIndex)
            newParsed == updateExerciseState(withSet, exerciseIndex + 1,
                                             "inProgress")
        IN  /\ currentParsed' = newParsed
            /\ hasPendingChanges' = FALSE
            /\ advanceThenWrite(newParsed, exerciseIndex + 1,
                   Call("onExerciseAddSet", {exerciseIndex}, exerciseIndex + 1))
            /\ UNCHANGED now

\* main.ts:440-469
onExerciseAddRest(exerciseIndex) ==
    LET restDuration == currentParsed.metadata.restDuration
    IN  IF ~HasIndex(currentParsed.exercises, exerciseIndex)
           \/ restDuration = {} \/ restDuration = {0}
        THEN /\ hasPendingChanges' = FALSE
             /\ UNCHANGED <<currentParsed, instances, now, lastWrite>>
        ELSE
            LET timerState == getTimerState(instances, WorkoutId)
                recorded == recordDuration(currentParsed, exerciseIndex,
                                           timerState)
                completed == updateExerciseState(recorded, exerciseIndex,
                                                 "completed")
                withRest == addRest(completed, exerciseIndex,
                                    CHOOSE r \in restDuration : TRUE)
                newParsed == updateExerciseState(withRest, exerciseIndex + 1,
                                                 "inProgress")
            IN  /\ currentParsed' = newParsed
                /\ hasPendingChanges' = FALSE
                /\ advanceThenWrite(newParsed, exerciseIndex + 1,
                       Call("onExerciseAddRest", {exerciseIndex},
                            exerciseIndex + 1))
                /\ UNCHANGED now

\* skipRecordsDuration without the test of the elapsed time, as in
\* onExerciseFinish: any running timer is recorded.
skipRecordsAnyDuration(timerState) ==
    timerState # {}

\* main.ts:475  `timerState && timerState.exerciseElapsed > 0`
skipRecordsDuration(timerState) ==
    /\ timerState # {}
    /\ (CHOOSE ts \in timerState : TRUE).exerciseElapsed > 0

\* main.ts:471-511
onExerciseSkip(exerciseIndex) ==
    LET timerState == getTimerState(instances, WorkoutId)
        recorded == IF skipRecordsDuration(timerState)
                    THEN recordDuration(currentParsed, exerciseIndex, timerState)
                    ELSE currentParsed
        skipped == updateExerciseState(recorded, exerciseIndex, "skipped")
        nextPending == findNextPending(skipped.exercises, exerciseIndex)
    IN  IF nextPending >= 0
        THEN LET newParsed == updateExerciseState(skipped, nextPending,
                                                  "inProgress")
             IN  /\ currentParsed' = newParsed
                 /\ hasPendingChanges' = FALSE
                 /\ advanceThenWrite(newParsed, nextPending,
                        Call("onExerciseSkip", {exerciseIndex}, nextPending))
                 /\ UNCHANGED now
        ELSE LET finalState == getTimerState(instances, WorkoutId)
                 newParsed == lockAllFields(completeWorkout(skipped, finalState))
                 stopped == stopWorkoutTimer(instances, WorkoutId)
             IN  /\ currentParsed' = newParsed
                 /\ hasPendingChanges' = FALSE
                 /\ instances' = stopped
                 /\ lastWrite' = updateFile(newParsed, stopped,
                        Call("onExerciseSkip", {exerciseIndex}, -1))
                 /\ UNCHANGED now

\* main.ts:515-516  `exercise?.params.find(p => p.key === paramKey)?.value`:
\* the value, or nothing.
paramValue(parsed, exerciseIndex, paramKey) ==
    IF ~HasIndex(parsed.exercises, exerciseIndex) THEN {}
    ELSE LET params == parsed.exercises[exerciseIndex + 1].params
             k == findIndex({m \in Indices(params) :
                                params[m + 1].key = paramKey})
         IN  IF k >= 0 THEN {params[k + 1].value} ELSE {}

\* onParamChange writing the new value through to the file at once.
onParamChangeWritesThrough(exerciseIndex, paramKey, newValue) ==
    IF paramValue(currentParsed, exerciseIndex, paramKey) = {newValue}
    THEN UNCHANGED callbackVars
    ELSE LET newParsed == updateParamValue(currentParsed, exerciseIndex,
                                           paramKey, newValue)
         IN  /\ currentParsed' = newParsed
             /\ hasPendingChanges' = FALSE
             /\ lastWrite' = updateFile(newParsed, instances,
                                        Call("onParamChange", {exerciseIndex}, -1))
             /\ UNCHANGED <<instances, now>>

\* main.ts:513-523: nothing when the parameter already holds newValue;
\* otherwise the value is kept in memory and marked as pending.
onParamChange(exerciseIndex, paramKey, newValue) ==
    IF paramValue(currentParsed, exerciseIndex, paramKey) = {newValue}
    THEN UNCHANGED callbackVars
    ELSE /\ currentParsed' = updateParamValue(currentParsed, exerciseIndex,
                                              paramKey, newValue)
         /\ hasPendingChanges' = TRUE
         /\ UNCHANGED <<instances, now, lastWrite>>

\* main.ts:320-324 (onFlushChanges, 525)
flushChanges ==
    IF hasPendingChanges
    THEN /\ currentParsed' = currentParsed
         /\ hasPendingChanges' = FALSE
         /\ lastWrite' = updateFile(currentParsed, instances,
                                    Call("onFlushChanges", {}, -1))
         /\ UNCHANGED <<instances, now>>
    ELSE UNCHANGED callbackVars

\* main.ts:527-529
onPauseExercise ==
    /\ instances' = pauseExercise(instances, WorkoutId)
    /\ UNCHANGED <<currentParsed, hasPendingChanges, now, lastWrite>>

\* onResumeExercise delegating to pauseExercise.
onResumeExercisePauses ==
    /\ instances' = pauseExercise(instances, WorkoutId)
    /\ UNCHANGED <<currentParsed, hasPendingChanges, now, lastWrite>>

\* main.ts:531-533
onResumeExercise ==
    /\ instances' = resumeExercise(instances, WorkoutId)
    /\ UNCHANGED <<currentParsed, hasPendingChanges, now, lastWrite>>

\* A second passes.
Tick ==
    /\ now < MaxTime
    /\ now' = now + 1
    /\ UNCHANGED <<currentParsed, hasPendingChanges, instances, lastWrite>>
    /\ OnlyCallbacks

-----------------------------------------------------------------------------
(* Specification                                                           *)

\* The list may still grow by one exercise.
MayGrow == Len(currentParsed.exercises) < MaxExercises

StartWorkout  == onStartWorkout /\ OnlyCallbacks
FinishWorkout == onFinishWorkout /\ OnlyCallbacks
ExerciseFinish ==
    /\ \E i \in ExerciseIndexInputs : onExerciseFinish(i)
    /\ OnlyCallbacks
ExerciseSkip ==
    /\ \E i \in ExerciseIndexInputs : onExerciseSkip(i)
    /\ OnlyCallbacks
ExerciseAddSet ==
    /\ MayGrow
    /\ \E i \in ExerciseIndexInputs : onExerciseAddSet(i)
    /\ OnlyCallbacks
ExerciseAddRest ==
    /\ MayGrow
    /\ \E i \in ExerciseIndexInputs : onExerciseAddRest(i)
    /\ OnlyCallbacks
PauseExercise  == onPauseExercise /\ OnlyCallbacks
ResumeExercise == onResumeExercise /\ OnlyCallbacks

Next ==
    \/ StartWorkout
    \/ FinishWorkout
    \/ ExerciseFinish
    \/ ExerciseSkip
    \/ ExerciseAddSet
    \/ ExerciseAddRest
    \/ PauseExercise
    \/ ResumeExercise
    \/ Tick

Spec == Init /\ [][Next]_vars

-----------------------------------------------------------------------------
(* Properties                                                              *)

\* The indices of the exercises of workout w that are in the given state.
InState(w, state) ==
    {i \in Indices(w.exercises) : w.exercises[i + 1].state = state}

\* Every parameter of every exercise of w is locked.
AllLocked(w) ==
    \A i \in DOMAIN w.exercises :
        \A k \in DOMAIN w.exercises[i].params :
            ~w.exercises[i].params[k].editable

\* C1: after any sequence of start / finish / skip / add-set / add-rest
\* callbacks, with any index and in any order, at most one exercise is
\* inProgress.
C1_AtMostOneInProgress ==
    Cardinality(InState(currentParsed, "inProgress")) <= 1

\* C2: an exercise is inProgress only while the workout is started: in a
\* planned or completed workout no exercise is inProgress.
C2_InProgressOnlyWhileStarted ==
    currentParsed.metadata.state \in {"planned", "completed"}
        => InState(currentParsed, "inProgress") = {}

\* The workout-level moves planned -> started -> completed.
WorkoutMoves ==
    {<<"planned", "started">>, <<"started", "completed">>}

\* C3: the workout state only moves forward along planned -> started ->
\* completed; completed is terminal.
C3_WorkoutStateForward ==
    [][ \/ currentParsed'.metadata.state = currentParsed.metadata.state
        \/ <<currentParsed.metadata.state, currentParsed'.metadata.state>>
               \in WorkoutMoves ]_vars

\* The exercise-level moves pending -> inProgress -> completed | skipped.
ExerciseMoves ==
    {<<"pending", "inProgress">>, <<"inProgress", "completed">>,
     <<"inProgress", "skipped">>}

\* Exercise `old` of the list before a step and exercise `new` of the list
\* after it are one exercise whose state stayed or moved along ExerciseMoves.
MovedForward(old, new) ==
    \/ new.state = old.state
    \/ <<old.state, new.state>> \in ExerciseMoves

\* The step kept the list, or inserted one exercise at position `at`; each
\* exercise that was there before moved forward at most.
ExercisesMovedForward(before, after) ==
    \/ /\ Len(after) = Len(before)
       /\ \A i \in DOMAIN before : MovedForward(before[i], after[i])
    \/ /\ Len(after) = Len(before) + 1
       /\ \E at \in DOMAIN after :
            \A i \in DOMAIN before :
                MovedForward(before[i], after[IF i < at THEN i ELSE i + 1])

\* C4: exercise states only move along pending -> inProgress ->
\* (completed | skipped): never pending -> completed or skipped directly, and
\* a completed or skipped exercise never changes state again.
C4_ExerciseStatesForward ==
    [][ExercisesMovedForward(currentParsed.exercises,
                             currentParsed'.exercises)]_vars

\* The step wrote the file from callback `by` invoked with index i, as every
\* run of an exercise callback on an existing exercise does.
WroteAs(by, i) ==
    /\ lastWrite'.call.by = by
    /\ lastWrite'.call.exerciseIndex = {i}

\* The callbacks that advance from one exercise to the next.
AdvanceCallbacks ==
    {"onExerciseFinish", "onExerciseSkip", "onExerciseAddSet",
     "onExerciseAddRest"}

\* C5: for every exercise advance the timer is advanced before the new text
\* is written: when the write is made, the timer already reports the promoted
\* exercise as the active one, with an elapsed time of zero, and that is the
\* exercise the written text shows in progress.
C5_AdvanceBeforeWrite ==
    ( /\ lastWrite.call.by \in AdvanceCallbacks
      /\ lastWrite.call.promoted >= 0
      /\ lastWrite.timer # {} )
    => /\ \A reading \in lastWrite.timer :
            /\ reading.activeExerciseIndex = lastWrite.call.promoted
            /\ reading.exerciseElapsed = 0
       /\ lastWrite.call.promoted \in InState(lastWrite.newParsed, "inProgress")

\* C5's case: a finish advanced to the next exercise while the timer showed
\* one second on the finished one.
C5_Witness ==
    /\ lastWrite.call.by = "onExerciseFinish"
    /\ lastWrite.call.promoted >= 0
    /\ lastWrite.timer # {}
    /\ \E i \in lastWrite.call.exerciseIndex :
          lastWrite.newParsed.exercises[i + 1].recordedDuration = {"1s"}

\* The pending exercises of a list after index i.
PendingAfter(exercises, i) ==
    {j \in Indices(exercises) : j > i /\ exercises[j + 1].state = "pending"}

\* The states of the exercises other than those in `except` are the same
\* before and after.
StatesKept(before, after, except) ==
    /\ Len(after) = Len(before)
    /\ \A k \in Indices(before) \ except :
          after[k + 1].state = before[k + 1].state

\* What C6 says a finish or skip of exercise i does to the other exercises
\* and to the workout.
PromotesNextPending(i) ==
    LET before == currentParsed.exercises
        after  == currentParsed'.exercises
        later  == PendingAfter(before, i)
    IN  IF later # {}
        THEN \E j \in later :
                /\ \A k \in later : j <= k
                /\ after[j + 1].state = "inProgress"
                /\ StatesKept(before, after, {i, j})
                /\ currentParsed'.metadata.state = currentParsed.metadata.state
        ELSE /\ StatesKept(before, after, {i})
             /\ currentParsed'.metadata.state = "completed"
             /\ AllLocked(currentParsed')

C7_CompletedIsLocked ==
    currentParsed.metadata.state = "completed" => AllLocked(currentParsed)

\* C8: the workout duration is set only in a completed workout, and every
\* step that completes the workout leaves it set.
C8_DurationIffCompleted ==
    [][ /\ currentParsed'.metadata.duration # {}
            => currentParsed'.metadata.state = "completed"
        /\ ( /\ currentParsed.metadata.state # "completed"
             /\ currentParsed'.metadata.state = "completed" )
            => currentParsed'.metadata.duration # {} ]_vars

\* The first parameter of the exercise whose key is "duration" in any case
\* holds the recorded duration and is locked.
DurationParamRecorded(exercise) ==
    LET durations == {k \in DOMAIN exercise.params :
                        toLowerCase(exercise.params[k].key) = "duration"}
    IN  /\ durations # {}
        /\ \E k \in durations :
              /\ \A m \in durations : k <= m
              /\ exercise.params[k].value \in exercise.recordedDuration
              /\ ~exercise.params[k].editable

\* The exercise is completed with a recorded duration in its Duration
\* parameter.
CompletedAndRecorded(exercise) ==
    /\ exercise.state = "completed"
    /\ exercise.recordedDuration # {}
    /\ DurationParamRecorded(exercise)

\* C9 as stated: after onExerciseFinish(i) on an existing exercise, the
\* exercise is completed, its recordedDuration is set, and its Duration
\* parameter holds that value and is locked.
C9_FinishRecordsDuration ==
    [][ \A i \in Indices(currentParsed.exercises) :
            (WroteAs("onExerciseFinish", i) /\ onExerciseFinish(i))
                => CompletedAndRecorded(currentParsed'.exercises[i + 1]) ]_vars

\* C9 amended: after onExerciseFinish(i) on an existing exercise, the
\* exercise is completed; when a timer runs for the workout, its
\* recordedDuration is set, and its Duration parameter holds that value and
\* is locked.
C9_FinishRecordsDurationWithTimer ==
    [][ \A i \in Indices(currentParsed.exercises) :
            (WroteAs("onExerciseFinish", i) /\ onExerciseFinish(i))
                => /\ currentParsed'.exercises[i + 1].state = "completed"
                   /\ isTimerRunning(instances, WorkoutId)
                        => CompletedAndRecorded(currentParsed'.exercises[i + 1])
      ]_vars

\* C9's case: a finish with a running timer recorded one second on the
\* finished exercise and went on to the next one.
C9_Witness ==
    /\ lastWrite.call.by = "onExerciseFinish"
    /\ lastWrite.call.promoted >= 0
    /\ lastWrite.timer # {}
    /\ currentParsed = lastWrite.newParsed
    /\ \E i \in lastWrite.call.exerciseIndex :
          /\ currentParsed.exercises[i + 1].state = "completed"
          /\ currentParsed.exercises[i + 1].recordedDuration = {"1s"}

\* The keys and values of the parameters are the same.
SameParamValues(before, after) ==
    /\ Len(after) = Len(before)
    /\ \A k \in DOMAIN before :
          /\ after[k].key = before[k].key
          /\ after[k].value = before[k].value

\* What C10 says a skip of exercise i does.
SkipEffect(i) ==
    LET before  == currentParsed.exercises[i + 1]
        after   == currentParsed'.exercises[i + 1]
        reading == getTimerState(instances, WorkoutId)
    IN  /\ after.state = "skipped"
        /\ \A ts \in reading :
              ts.exerciseElapsed > 0
                => /\ after.recordedDuration =
                          {formatDurationHuman(ts.exerciseElapsed)}
                   /\ DurationParamRecorded(after)
        /\ (reading = {} \/ \E ts \in reading : ts.exerciseElapsed <= 0)
              => /\ after.recordedDuration = before.recordedDuration
                 /\ SameParamValues(before.params, after.params)
        /\ PendingAfter(currentParsed.exercises, i) = {}
              => currentParsed'.metadata.state = "completed"

\* C10: onExerciseSkip(i) marks exercise i skipped and records a duration on
\* it exactly when the timer reports an exercise elapsed time above zero;
\* otherwise the exercise keeps its recordedDuration and parameters; when no
\* pending exercise follows, the workout becomes completed.
C10_SkipRecordsOnlyElapsed ==
    [][ \A i \in Indices(currentParsed.exercises) :
            (WroteAs("onExerciseSkip", i) /\ onExerciseSkip(i))
                => SkipEffect(i) ]_vars

\* C10's case: the last pending exercise was skipped at zero elapsed time
\* with the timer running: no duration on the exercise, the workout
\* completed with its duration taken from the timer.
C10_Witness ==
    /\ lastWrite.call.by = "onExerciseSkip"
    /\ lastWrite.call.promoted = -1
    /\ currentParsed = lastWrite.newParsed
    /\ currentParsed.metadata.state = "completed"
    /\ currentParsed.metadata.duration # {}
    /\ \E i \in lastWrite.call.exerciseIndex :
          /\ HasIndex(currentParsed.exercises, i)
          /\ currentParsed.exercises[i + 1].state = "skipped"
          /\ currentParsed.exercises[i + 1].recordedDuration = {}

\* What C13 says onExerciseAddSet(i) does.
AddSetEffect(i) ==
    LET before == currentParsed.exercises
        after  == currentParsed'.exercises
    IN  /\ after[i + 1].state = "completed"
        /\ after[i + 1].recordedDuration # {}
        /\ Len(after) = Len(before) + 1
        /\ after[i + 2].name = before[i + 1].name
        /\ InState(currentParsed', "inProgress") = {i + 1}
        /\ isTimerRunning(instances', WorkoutId)
        /\ instances'[WorkoutId].activeExerciseIndex = i + 1
        /\ timerStateAt(instances'[WorkoutId], now').exerciseElapsed = 0
        /\ ~instances'[WorkoutId].isPaused
        /\ \A k \in Indices(before) :
              k > i => after[k + 2].lineIndex = before[k + 1].lineIndex + 1

\* C13: after onExerciseAddSet(i) on an inProgress exercise i with a running
\* timer, exercise i is completed with a recorded duration, the exercise at
\* i+1 is the new clone and the only inProgress exercise, the timer's active
\* exercise is i+1 with its clock reset and unpaused, and every exercise
\* after the clone has its lineIndex incremented by one.
C13_AddSetAdvances ==
    [][ \A i \in Indices(currentParsed.exercises) :
            ( /\ WroteAs("onExerciseAddSet", i)
              /\ currentParsed.exercises[i + 1].state = "inProgress"
              /\ isTimerRunning(instances, WorkoutId)
              /\ onExerciseAddSet(i) )
                => AddSetEffect(i) ]_vars

\* The value of the first parameter of the exercise whose key is "duration"
\* in any case, or nothing.
DurationValue(exercise) ==
    LET d == findDurationParam(exercise.params)
    IN  IF d >= 0 THEN {exercise.params[d + 1].value} ELSE {}

\* Where exercise k (counted from 1) of the list before the step is in the
\* list after it: an add-set or add-rest on index i inserts right after i.
PlaceAfterStep(k) ==
    IF Len(currentParsed'.exercises) = Len(currentParsed.exercises)
    THEN k
    ELSE IF \E i \in lastWrite'.call.exerciseIndex : k > i + 1
         THEN k + 1
         ELSE k

\* C24: once an exercise is completed or skipped and has a recordedDuration,
\* no callback, a repeated finish, skip, add-set or add-rest on its index
\* included, changes its recordedDuration or the value of its Duration
\* parameter.
C24_RecordedDurationIsFinal ==
    [][ \A k \in DOMAIN currentParsed.exercises :
            LET old == currentParsed.exercises[k]
                new == currentParsed'.exercises[PlaceAfterStep(k)]
            IN  ( /\ old.state \in {"completed", "skipped"}
                  /\ old.recordedDuration # {} )
                    => /\ new.recordedDuration = old.recordedDuration
                       /\ DurationValue(new) = DurationValue(old) ]_vars

\* The indices callbacks are invoked with that address no exercise.
MissingIndexInputs ==
    ExerciseIndexInputs \ Indices(currentParsed.exercises)

\* C27: onExerciseFinish, onExerciseSkip, onExerciseAddSet and
\* onExerciseAddRest invoked with an index that addresses no exercise change
\* nothing: the exercises, the workout state, the timer instances and the
\* file are as they were.
C27_MissingIndexChangesNothing ==
    [][ \A i \in MissingIndexInputs :
            ( \/ onExerciseFinish(i)
              \/ onExerciseSkip(i)
              \/ onExerciseAddSet(i)
              \/ onExerciseAddRest(i) )
                => /\ currentParsed' = currentParsed
                   /\ instances' = instances
                   /\ lastWrite' = lastWrite ]_vars

\* The callbacks that set or move the active exercise.
OrchestratorCallbacks ==
    {"onStartWorkout"} \cup AdvanceCallbacks

\* C29: whenever start, finish, skip, add-set or add-rest has run with a
\* timer running afterwards and some exercise inProgress in the workout in
\* memory, the timer's activeExerciseIndex is the index of that inProgress
\* exercise.
C29_ActiveIndexIsInProgress ==
    [][ ( /\ lastWrite' # lastWrite
          /\ lastWrite'.call.by \in OrchestratorCallbacks
          /\ isTimerRunning(instances', WorkoutId)
          /\ InState(currentParsed', "inProgress") # {} )
            => instances'[WorkoutId].activeExerciseIndex
                   \in InState(currentParsed', "inProgress") ]_vars

\* C30: when onExerciseFinish or onExerciseSkip completes the workout
\* because its scan found no pending exercise to promote, no exercise of the
\* workout is left pending.
C30_AutoCompleteLeavesNoPending ==
    [][ ( /\ lastWrite' # lastWrite
          /\ lastWrite'.call.by \in {"onExerciseFinish", "onExerciseSkip"}
          /\ lastWrite'.call.promoted = -1
          /\ currentParsed'.metadata.state = "completed" )
            => InState(currentParsed', "pending") = {} ]_vars

-----------------------------------------------------------------------------
(* The mutation functions on their own                                     *)

\* The exercise lines the functions are given, one of each kind:
\*   - [ ] Squats | Weight: [60] kg | Reps: [10]        no Duration parameter
\*   - [\] Plank | Duration: [2s]                       a countdown target
\*   - [x] Plank | Duration: 1s                         a recorded countdown
\*   - [-] Stretch | duration: [60] | Duration: 60      two duration keys, the
\*                                 first in brackets, neither a time literal
ExerciseShapes ==
    { [state |-> "pending", name |-> "Squats",
       params |-> <<Param("Weight", "60", TRUE, {"kg"}),
                    Param("Reps", "10", TRUE, {})>>,
       targetDuration |-> {}, recordedDuration |-> {}, lineIndex |-> 0],
      [state |-> "inProgress", name |-> "Plank",
       params |-> <<Param("Duration", "2s", TRUE, {})>>,
       targetDuration |-> {2}, recordedDuration |-> {}, lineIndex |-> 0],
      [state |-> "completed", name |-> "Plank",
       params |-> <<Param("Duration", "1s", FALSE, {})>>,
       targetDuration |-> {2}, recordedDuration |-> {"1s"}, lineIndex |-> 0],
      [state |-> "skipped", name |-> "Stretch",
       params |-> <<Param("duration", "60", TRUE, {}),
                    Param("Duration", "60", FALSE, {})>>,
       targetDuration |-> {}, recordedDuration |-> {"60"}, lineIndex |-> 0] }

\* The workouts the functions are given: up to MaxExercises exercise lines
\* in any order, numbered by their line; a line that is no exercise follows
\* the first one.
MutationInputs ==
    { [PlannedWorkout EXCEPT !.exercises =
          [k \in DOMAIN shapes |->
              [shapes[k] EXCEPT !.lineIndex = IF k = 1 THEN 0 ELSE k]]] :
      shapes \in UNION {[1 .. n -> ExerciseShapes] : n \in 0 .. MaxExercises} }

\* The arguments the functions are given.
ExerciseStates == {"pending", "inProgress", "completed", "skipped"}
ParamKeyInputs == {"Weight", "Duration"}
ParamValueInputs == {"70"}
DurationStrInputs == {"3s"}

\* The indices a function is given for workout w, in and out of range.
IndexInputs(w) == -1 .. Len(w.exercises)

\* Function fn applied to workout parsed with an exercise index (none for
\* lockAllFields) and further arguments gave result.
Application(fn, parsed, exerciseIndex, args, result) ==
    [fn |-> fn, parsed |-> parsed, exerciseIndex |-> exerciseIndex,
     args |-> args, result |-> result]

\* Only `applied` changes.
OnlyApplied == UNCHANGED <<callbackVars, hostVars, literal>>

ApplyUpdateParamValue ==
    /\ \E i \in IndexInputs(applied.parsed) :
       \E paramKey \in ParamKeyInputs : \E newValue \in ParamValueInputs :
          applied' = Application("updateParamValue", applied.parsed, {i},
                        <<paramKey, newValue>>,
                        updateParamValue(applied.parsed, i, paramKey, newValue))
    /\ OnlyApplied

ApplyUpdateExerciseState ==
    /\ \E i \in IndexInputs(applied.parsed) : \E newState \in ExerciseStates :
          applied' = Application("updateExerciseState", applied.parsed, {i},
                        <<newState>>,
                        updateExerciseState(applied.parsed, i, newState))
    /\ OnlyApplied

ApplyLockAllFields ==
    /\ applied' = Application("lockAllFields", applied.parsed, {}, <<>>,
                              lockAllFields(applied.parsed))
    /\ OnlyApplied

ApplyAddSet ==
    /\ \E i \in IndexInputs(applied.parsed) :
          applied' = Application("addSet", applied.parsed, {i}, <<>>,
                                 addSet(applied.parsed, i))
    /\ OnlyApplied

ApplySetRecordedDuration ==
    /\ \E i \in IndexInputs(applied.parsed) :
       \E durationStr \in DurationStrInputs :
          applied' = Application("setRecordedDuration", applied.parsed, {i},
                        <<durationStr>>,
                        setRecordedDuration(applied.parsed, i, durationStr))
    /\ OnlyApplied

MutationInit ==
    /\ \E parsed \in MutationInputs :
          applied = Application("none", parsed, {}, <<>>, parsed)
    /\ literal = <<>>
    /\ createCallbacks(PlannedWorkout, <<>>)
    /\ HostUnused

MutationNext ==
    \/ ApplyUpdateParamValue
    \/ ApplyUpdateExerciseState
    \/ ApplyLockAllFields
    \/ ApplyAddSet
    \/ ApplySetRecordedDuration

MutationSpec == MutationInit /\ [][MutationNext]_vars

\* Function fn was applied with an index that addresses an exercise.
AppliedInRange(fn) ==
    /\ applied.fn = fn
    /\ \A i \in applied.exerciseIndex : HasIndex(applied.parsed.exercises, i)

\* The parameters have the same keys, values and units, one by one.
SameKeysValuesUnits(before, after) ==
    /\ Len(after) = Len(before)
    /\ \A k \in DOMAIN before :
          /\ after[k].key = before[k].key
          /\ after[k].value = before[k].value
          /\ after[k].unit = before[k].unit

\* The lineIndex values rise strictly along the list.
StrictlyIncreasing(exercises) ==
    \A k \in DOMAIN exercises :
        k > 1 => exercises[k - 1].lineIndex < exercises[k].lineIndex

\* What C11 says the result r of addSet(w, i) is.
AddSetContract(w, i, r) ==
    LET before == w.exercises
        after  == r.exercises
    IN  /\ Len(after) = Len(before) + 1
        /\ \A k \in 0 .. i : after[k + 1] = before[k + 1]
        /\ after[i + 2].name = before[i + 1].name
        /\ SameKeysValuesUnits(before[i + 1].params, after[i + 2].params)
        /\ after[i + 2].state = "pending"
        /\ after[i + 2].recordedDuration = {}
        /\ \A k \in Indices(before) :
              k > i => after[k + 2] =
                         [before[k + 1] EXCEPT !.lineIndex = @ + 1]
        /\ StrictlyIncreasing(before) => StrictlyIncreasing(after)

\* C11: addSet(w, i) for a valid index i returns a workout with one more
\* exercise: exercises 0..i unchanged, at i+1 a copy of exercise i (same name
\* and parameter keys, values and units) that is pending with no
\* recordedDuration, every later exercise one place further with its
\* lineIndex increased by one and otherwise unchanged, and strictly
\* increasing lineIndex values still strictly increasing.
C11_AddSetInsertsCopy ==
    AppliedInRange("addSet")
        => \A i \in applied.exerciseIndex :
              AddSetContract(applied.parsed, i, applied.result)

\* C11's case: a set was added to the first of three exercises whose
\* lineIndex values rise, a recorded one, so two exercises moved.
C11_Witness ==
    /\ applied.fn = "addSet"
    /\ applied.exerciseIndex = {0}
    /\ Len(applied.parsed.exercises) = 3
    /\ StrictlyIncreasing(applied.parsed.exercises)
    /\ applied.parsed.exercises[1].recordedDuration # {}
    /\ Len(applied.result.exercises) = 4

\* C12: in the exercise created by addSet, a duration parameter is editable
\* if and only if the original exercise had a targetDuration (so without a
\* targetDuration every duration parameter of the clone is locked), and every
\* other parameter keeps the editable flag of the original.
C12_CloneDurationEditableIffTarget ==
    AppliedInRange("addSet")
        => \A i \in applied.exerciseIndex :
              LET original == applied.parsed.exercises[i + 1]
                  clone    == applied.result.exercises[i + 2]
              IN  \A k \in DOMAIN clone.params :
                      IF toLowerCase(clone.params[k].key) = "duration"
                      THEN clone.params[k].editable
                              <=> (original.targetDuration # {})
                      ELSE clone.params[k].editable
                              = original.params[k].editable

\* The functions that take an exercise index.
IndexedFunctions ==
    {"updateParamValue", "updateExerciseState", "addSet", "setRecordedDuration"}

\* C14: updateParamValue, updateExerciseState, addSet and setRecordedDuration
\* return the workout they were given, unchanged, when the index addresses
\* no exercise (negative, or at or past the number of exercises).
C14_OutOfRangeIndexReturnsInput ==
    ( /\ applied.fn \in IndexedFunctions
      /\ \A i \in applied.exerciseIndex :
            ~HasIndex(applied.parsed.exercises, i) )
        => applied.result = applied.parsed

\* C14's case: updateExerciseState was called with index -1 on a workout of
\* three exercises whose last one is in another state than the new one.
C14_Witness ==
    /\ applied.fn = "updateExerciseState"
    /\ applied.exerciseIndex = {-1}
    /\ Len(applied.parsed.exercises) = 3
    /\ applied.parsed.exercises[3].state # applied.args[1]
    /\ applied.result = applied.parsed

\* What C16 says the result r of setRecordedDuration(w, i, d) is.
SetRecordedDurationContract(w, i, d, r) ==
    LET before == w.exercises[i + 1]
        after  == r.exercises[i + 1]
        durations == {k \in DOMAIN before.params :
                        toLowerCase(before.params[k].key) = "duration"}
    IN  /\ Len(r.exercises) = Len(w.exercises)
        /\ r.metadata = w.metadata
        /\ \A k \in DOMAIN w.exercises : k # i + 1 => r.exercises[k] = w.exercises[k]
        /\ after.recordedDuration = {d}
        /\ after.targetDuration = before.targetDuration
        /\ after.state = before.state
        /\ after.name = before.name
        /\ after.lineIndex = before.lineIndex
        /\ IF durations # {}
           THEN LET first == CHOOSE k \in durations : \A m \in durations : k <= m
                IN  /\ Len(after.params) = Len(before.params)
                    /\ after.params[first] =
                          [before.params[first] EXCEPT !.value = d,
                                                       !.editable = FALSE]
                    /\ \A k \in DOMAIN before.params :
                          k # first => after.params[k] = before.params[k]
           ELSE /\ Len(after.params) = Len(before.params) + 1
                /\ toLowerCase(after.params[Len(after.params)].key) = "duration"
                /\ after.params[Len(after.params)].value = d
                /\ ~after.params[Len(after.params)].editable
                /\ \A k \in DOMAIN before.params :
                      after.params[k] = before.params[k]

\* C16: setRecordedDuration(w, i, d) for a valid index i sets value d and
\* editable false on the first parameter of exercise i whose key is
\* "duration" in any letter case, or appends such a parameter when there is
\* none, and sets recordedDuration to d; the number of parameters changes by
\* at most one; targetDuration, state and the other parameters of exercise i,
\* and every other exercise, are unchanged.
C16_SetRecordedDurationContract ==
    AppliedInRange("setRecordedDuration")
        => \A i \in applied.exerciseIndex :
              SetRecordedDurationContract(applied.parsed, i, applied.args[1],
                                          applied.result)

\* C16's case: a duration was recorded on an exercise with two parameters
\* whose key is "duration", the first of them editable, next to another
\* exercise.
C16_Witness ==
    /\ applied.fn = "setRecordedDuration"
    /\ applied.exerciseIndex = {1}
    /\ Len(applied.parsed.exercises) = 2
    /\ applied.parsed.exercises[2].name = "Stretch"
    /\ applied.parsed.exercises[2].params[1].editable
    /\ applied.result.exercises[2].params[1].value = applied.args[1]
    /\ applied.result.exercises[2].params[2].value = "60"

-----------------------------------------------------------------------------
(* The callbacks and the object they share with the renderer               *)

\* processWorkoutBlock hands one object, `parsed`, to createCallbacks and to
\* renderWorkout (main.ts:289-297).  `rendered` follows that object: what it
\* held when handed over, what it holds now, and whether `currentParsed` is
\* still the same object.
Rendered(given, parsed, sameObject) ==
    [given |-> given, parsed |-> parsed, sameObject |-> sameObject]

\* An assignment into currentParsed itself (`currentParsed.metadata.state =
\* ...`): the rendered object changes with it while it is the same object.
assignInPlace(r, newContent) ==
    IF r.sameObject THEN [r EXCEPT !.parsed = newContent] ELSE r

\* `currentParsed = f(currentParsed, ...)` where f returns its structuredClone.
reassign(r) == [r EXCEPT !.sameObject = FALSE]

\* The rest of the host side and the function-level variables stay.
OnlyRendered == UNCHANGED <<content, sectionInfo, pureVars>>

\* main.ts:330-342: every assignment is made into currentParsed.
RenderedStartWorkout ==
    /\ onStartWorkout
    /\ rendered' = assignInPlace(rendered, currentParsed')
    /\ OnlyRendered

\* main.ts:350-358: duration and state are assigned into currentParsed, then
\* lockAllFields returns a clone.
RenderedFinishWorkout ==
    /\ onFinishWorkout
    /\ rendered' = reassign(assignInPlace(rendered,
                      completeWorkout(currentParsed,
                                      getTimerState(instances, WorkoutId))))
    /\ OnlyRendered

\* main.ts:442-457: past the guard updateExerciseState returns a clone.
RenderedExerciseAddRest ==
    /\ MayGrow
    /\ \E i \in ExerciseIndexInputs :
          /\ onExerciseAddRest(i)
          /\ rendered' = IF /\ HasIndex(currentParsed.exercises, i)
                            /\ currentParsed.metadata.restDuration \notin {{}, {0}}
                         THEN reassign(rendered) ELSE rendered
    /\ OnlyRendered

\* main.ts:474-504: with no exercise at the index setRecordedDuration and
\* updateExerciseState return their argument itself; when no pending exercise
\* follows, state and duration are then assigned into it (499-503) before
\* lockAllFields returns a clone.
RenderedExerciseSkip ==
    /\ \E i \in ExerciseIndexInputs :
          /\ onExerciseSkip(i)
          /\ rendered' =
                IF \/ HasIndex(currentParsed.exercises, i)
                   \/ findNextPending(currentParsed.exercises, i) >= 0
                THEN reassign(rendered)
                ELSE reassign(assignInPlace(rendered,
                        completeWorkout(currentParsed,
                                        getTimerState(instances, WorkoutId))))
    /\ OnlyRendered

\* main.ts:833-849: the parameters shown as an input field, which calls
\* onParamChange on blur, are the editable ones other than the duration.
EditedParamKeys == {"Weight"}

\* main.ts:513-523: updateParamValue returns a clone when the exercise exists.
RenderedParamChange ==
    /\ \E i \in ExerciseIndexInputs :
       \E paramKey \in EditedParamKeys : \E newValue \in ParamValueInputs :
          /\ onParamChange(i, paramKey, newValue)
          /\ rendered' =
                IF /\ HasIndex(currentParsed.exercises, i)
                   /\ paramValue(currentParsed, i, paramKey) # {newValue}
                THEN reassign(rendered) ELSE rendered
    /\ OnlyRendered

\* main.ts:320-324: updateFile(currentParsed) keeps the object.
RenderedFlushChanges ==
    /\ flushChanges
    /\ UNCHANGED rendered
    /\ OnlyRendered

\* README "Quick HIIT": a block without restDuration.
WithoutRestDuration(w) == [w EXCEPT !.metadata.restDuration = {}]

\* The blocks rendered: with and without restDuration.
RenderedWorkouts ==
    InitialWorkouts \cup {WithoutRestDuration(w) : w \in InitialWorkouts}

RenderedInit ==
    /\ \E parsed \in RenderedWorkouts :
          /\ createCallbacks(parsed, <<>>)
          /\ rendered = Rendered(parsed, parsed, TRUE)
    /\ content = <<>>
    /\ sectionInfo = {}
    /\ PureUnused

RenderedNext ==
    \/ RenderedStartWorkout
    \/ RenderedFinishWorkout
    \/ RenderedExerciseAddRest
    \/ RenderedExerciseSkip
    \/ RenderedParamChange
    \/ RenderedFlushChanges

RenderedSpec == RenderedInit /\ [][RenderedNext]_vars

\* C15: no transformation mutates the workout it was given: after any
\* callback ran, onStartWorkout and onFinishWorkout included, the
\* ParsedWorkout handed to the renderer for the block has the metadata,
\* exercise states and parameters it had when it was handed over.
C15_RenderedWorkoutNotMutated ==
    rendered.parsed = rendered.given

\* C17: onExerciseAddRest invoked while metadata.restDuration is unset is a
\* silent no-op: the in-memory workout, the pending-changes flag, the timer
\* instance and the file (no write is made) are the same after the call as
\* before it.
C17_AddRestWithoutRestDurationIsNoOp ==
    [][ \A i \in ExerciseIndexInputs :
            ( /\ currentParsed.metadata.restDuration = {}
              /\ onExerciseAddRest(i) )
                => UNCHANGED <<currentParsed, hasPendingChanges, instances,
                               lastWrite>> ]_vars

-----------------------------------------------------------------------------
(* A block processed again: re-render after a write, undo, manual edit     *)

\* syncTimer without its second branch (main.ts:279-287): a timer that stays
\* keeps the active exercise it had.
syncTimerStopOnly(timers, parsed) ==
    IF isTimerRunning(timers, WorkoutId) /\ parsed.metadata.state # "started"
    THEN stopWorkoutTimer(timers, WorkoutId)
    ELSE timers

\* main.ts:274-287  "Sync timer state with parsed state"
syncTimer(timers, parsed) ==
    IF isTimerRunning(timers, WorkoutId) /\ parsed.metadata.state # "started"
    THEN stopWorkoutTimer(timers, WorkoutId)
    ELSE IF isTimerRunning(timers, WorkoutId)
            /\ parsed.metadata.state = "started"
         THEN LET parsedActiveIndex ==
                      findIndexOfState(parsed.exercises, "inProgress")
                  timerActiveIndex ==
                      getActiveExerciseIndex(timers, WorkoutId)
              IN  IF parsedActiveIndex >= 0
                     /\ parsedActiveIndex # timerActiveIndex
                  THEN setActiveExerciseIndex(timers, WorkoutId,
                                              parsedActiveIndex)
                  ELSE timers
         ELSE timers

\* main.ts:265-298 for a block whose text parses to `parsed`: the timer is
\* synced and a new closure is built over `parsed`.
processWorkoutBlock(parsed) ==
    /\ instances' = syncTimer(instances, parsed)
    /\ currentParsed' = parsed
    /\ hasPendingChanges' = FALSE
    /\ UNCHANGED <<now, lastWrite>>

\* A started block edited by hand: every exercise back to pending.
AllPending(w) ==
    [w EXCEPT !.exercises = [i \in DOMAIN @ |-> [@[i] EXCEPT !.state = "pending"]]]

\* What the block's text parses to when the host processes it again: the
\* text as last written, the text an undo brought back, or an edited one.
ProcessedWorkouts ==
    {lastWrite.newParsed} \cup InitialWorkouts \cup {AllPending(StartedWorkout)}

ProcessWorkoutBlock ==
    /\ \E parsed \in ProcessedWorkouts : processWorkoutBlock(parsed)
    /\ OnlyCallbacks

ProcessNext ==
    \/ StartWorkout
    \/ FinishWorkout
    \/ ExerciseFinish
    \/ ExerciseSkip
    \/ PauseExercise
    \/ ResumeExercise
    \/ Tick
    \/ ProcessWorkoutBlock

ProcessSpec == Init /\ [][ProcessNext]_vars

\* What C18 says of a block processed again with text that parses to
\* `parsed` while a timer runs for it.
TimerSynced(parsed) ==
    /\ parsed.metadata.state # "started"
          => ~isTimerRunning(instances', WorkoutId)
    /\ ( /\ parsed.metadata.state = "started"
         /\ InState(parsed, "inProgress") # {} )
          => /\ isTimerRunning(instances', WorkoutId)
             /\ instances'[WorkoutId].activeExerciseIndex
                    = findIndexOfState(parsed.exercises, "inProgress")
             /\ instances'[WorkoutId].workoutStartTime
                    = instances[WorkoutId].workoutStartTime

\* C18: when a block is processed again while a timer runs for its workout:
\* if the parsed state is not started the timer is stopped; if it is started
\* and the text has an inProgress exercise (the first one, when several),
\* the timer's activeExerciseIndex is that exercise's index afterwards and
\* workoutStartTime is unchanged.
C18_ReprocessSyncsTimer ==
    [][ \A parsed \in ProcessedWorkouts :
            ( /\ isTimerRunning(instances, WorkoutId)
              /\ processWorkoutBlock(parsed) )
                => TimerSynced(parsed) ]_vars

\* C18's case: the last write promoted exercise 1 and the timer was on it;
\* an undo brought back the text with exercise 0 in progress, and the timer,
\* started a second ago, is on exercise 0 again.
C18_Witness ==
    /\ lastWrite.call.promoted = 1
    /\ \E reading \in lastWrite.timer : reading.activeExerciseIndex = 1
    /\ currentParsed = StartedWorkout
    /\ isTimerRunning(instances, WorkoutId)
    /\ instances[WorkoutId].activeExerciseIndex = 0
    /\ instances[WorkoutId].workoutStartTime < now

-----------------------------------------------------------------------------
(* The note: what updateFile writes and where                              *)

\* parser/exercise getStateChar: the checkbox marker of a state.
getStateChar(state) ==
    CASE state = "pending"    -> " "
      [] state = "inProgress" -> "\\"
      [] state = "completed"  -> "x"
      [] state = "skipped"    -> "-"

\* One parameter of an exercise line: "Key: [value] unit", the brackets
\* when the value is editable.
serializeParam(param) ==
    param.key \o ": "
        \o (IF param.editable THEN "[" \o param.value \o "]" ELSE param.value)
        \o (IF param.unit = {} THEN ""
            ELSE " " \o (CHOOSE unit \in param.unit : TRUE))

\* The parameters from the k-th on, each after " | ".
RECURSIVE serializeParams(_, _)
serializeParams(params, k) ==
    IF k > Len(params) THEN ""
    ELSE " | " \o serializeParam(params[k]) \o serializeParams(params, k + 1)

\* parser/exercise serializeExercise: "- [<marker>] <name> | <Key>: ..."
serializeExercise(exercise) ==
    "- [" \o getStateChar(exercise.state) \o "] " \o exercise.name
        \o serializeParams(exercise.params, 1)

\* parser/metadata serializeMetadata: title and restDuration when set;
\* startDate and duration keep their key when empty.
serializeMetadata(metadata) ==
    (IF metadata.title = {} THEN <<>>
     ELSE <<"title: " \o (CHOOSE title \in metadata.title : TRUE)>>)
    \o <<"state: " \o metadata.state>>
    \o <<IF metadata.startDate = {} THEN "startDate:"
         ELSE "startDate: " \o (CHOOSE d \in metadata.startDate : TRUE)>>
    \o <<IF metadata.duration = {} THEN "duration:"
         ELSE "duration: " \o (CHOOSE d \in metadata.duration : TRUE)>>
    \o (IF metadata.restDuration = {} THEN <<>>
        ELSE <<"restDuration: " \o formatDurationHuman(
                   CHOOSE r \in metadata.restDuration : TRUE)>>)

\* main.ts:562-578, as the lines that `lines.join('\n')` joins.
serializeWorkout(parsed) ==
    serializeMetadata(parsed.metadata)
        \o <<"---">>
        \o [i \in DOMAIN parsed.exercises |->
                serializeExercise(parsed.exercises[i])]

\* main.ts:956-993: the lines after the opening fence at lineStart and
\* before the closing fence at lineEnd are replaced; nothing without
\* section info.
updateCodeBlock(lines, info, newContent) ==
    IF info = {} THEN lines
    ELSE LET section == CHOOSE si \in info : TRUE
         IN  SubSeq(lines, 1, section.lineStart + 1)
                 \o newContent
                 \o SubSeq(lines, section.lineEnd + 1, Len(lines))

\* A workout block in a note: its fences around its text (the backquotes of
\* a fence are written ~ here).
CodeBlock(lines) == <<"~~~workout">> \o lines \o <<"~~~">>

\* README "Strength Training": another workout block.
PushDayBlock ==
    CodeBlock(<<"title: Push Day", "state: planned", "startDate:",
                "duration:", "restDuration: 90s", "---",
                "- [ ] Bench Press | Weight: [60] kg | Reps: [8]",
                "- [ ] Overhead Press | Weight: [30] kg | Reps: [10]",
                "- [ ] Tricep Dips | Reps: [12]">>)

\* main.ts:271  ctx.getSectionInfo(el) for a block at the top of `lines`
\* whose text has n lines.
getSectionInfo(n) == [lineStart |-> 0, lineEnd |-> n + 1]

\* main.ts:313-316: the file update of updateFile(newParsed), made with the
\* section info the closure was built with.
writeFile(newParsed) ==
    content' = updateCodeBlock(content, sectionInfo, serializeWorkout(newParsed))

\* The rest stays: the closure keeps its section info.
OnlyNote == UNCHANGED <<rendered, sectionInfo, pureVars>>

\* main.ts:342
NoteStartWorkout ==
    /\ onStartWorkout
    /\ writeFile(currentParsed')
    /\ OnlyNote

\* main.ts:360
NoteFinishWorkout ==
    /\ onFinishWorkout
    /\ writeFile(currentParsed')
    /\ OnlyNote

\* main.ts:369, 396, 405: no write when the exercise does not exist.
NoteExerciseFinish ==
    /\ \E i \in ExerciseIndexInputs :
          /\ onExerciseFinish(i)
          /\ IF HasIndex(currentParsed.exercises, i)
             THEN writeFile(currentParsed')
             ELSE UNCHANGED content
    /\ OnlyNote

\* main.ts:496, 509
NoteExerciseSkip ==
    /\ \E i \in ExerciseIndexInputs :
          /\ onExerciseSkip(i)
          /\ writeFile(currentParsed')
    /\ OnlyNote

\* The user pastes another workout block at the top of a note that holds
\* one; the host has no reason to process the block below again, its text
\* is the same.
PasteBlockAbove ==
    /\ Cardinality({k \in DOMAIN content : content[k] = "~~~workout"}) = 1
    /\ content' = PushDayBlock \o content
    /\ UNCHANGED callbackVars
    /\ OnlyNote

\* The note holds the rendered block at its top and a line of text; the
\* host may have no section info to give (main.ts:271, 967).
NoteInit ==
    /\ \E parsed \in InitialWorkouts :
          /\ createCallbacks(parsed, <<>>)
          /\ content = CodeBlock(serializeWorkout(parsed)) \o <<"Notes">>
          /\ sectionInfo \in
                {{}, {getSectionInfo(Len(serializeWorkout(parsed)))}}
    /\ rendered = <<>>
    /\ PureUnused

NoteNext ==
    \/ NoteStartWorkout
    \/ NoteFinishWorkout
    \/ NoteExerciseFinish
    \/ NoteExerciseSkip
    \/ PasteBlockAbove

NoteSpec == NoteInit /\ [][NoteNext]_vars

\* The block at the section the closure holds has the title `title`: its
\* first line is "title: <title>".
TitleAtSection(lines, info, title) ==
    \A section \in info : \A t \in title :
        /\ section.lineStart + 2 <= Len(lines)
        /\ lines[section.lineStart + 2] = "title: " \o t

\* C19: a write is refused when the block now at the target section does not
\* match the expected title the core supplies (the title of the workout
\* written): the note is left unchanged.
C19_MismatchedTitleRefusesWrite ==
    [][ ( /\ lastWrite' # lastWrite
          /\ ~TitleAtSection(content, sectionInfo,
                             lastWrite'.newParsed.metadata.title) )
            => content' = content ]_vars

-----------------------------------------------------------------------------
(* Time literals: a duration formatted and parsed back                     *)

\* The characters of the decimal digits.
DigitChars == <<"0", "1", "2", "3", "4", "5", "6", "7", "8", "9">>

\* `${n}`: the decimal digits of a non-negative integer, as characters.
RECURSIVE decimal(_)
decimal(n) ==
    IF n < 10 THEN <<DigitChars[n + 1]>>
    ELSE decimal(n \div 10) \o <<DigitChars[(n % 10) + 1]>>

\* formatTimeLiteral with the seconds not reduced modulo 60.
formatTimeLiteralWholeSeconds(seconds) ==
    LET mins == seconds \div 60
    IN  IF mins > 0
        THEN decimal(mins) \o <<"m", " ">> \o decimal(seconds) \o <<"s">>
        ELSE decimal(seconds) \o <<"s">>

\* main.ts:731-733: "<mins>m <secs>s", the minutes only when there are any.
formatTimeLiteral(seconds) ==
    LET mins == seconds \div 60
        secs == seconds % 60
    IN  IF mins > 0
        THEN decimal(mins) \o <<"m", " ">> \o decimal(secs) \o <<"s">>
        ELSE decimal(secs) \o <<"s">>

\* The value of a digit character, or -1.
digitValue(char) ==
    IF \E d \in DOMAIN DigitChars : DigitChars[d] = char
    THEN (CHOOSE d \in DOMAIN DigitChars : DigitChars[d] = char) - 1
    ELSE -1

\* The integer read from position k of chars on: its value so far `value`,
\* whether a digit was read, and the position after its last digit.
RECURSIVE readInt(_, _, _, _)
readInt(chars, k, value, any) ==
    IF k <= Len(chars) /\ digitValue(chars[k]) >= 0
    THEN readInt(chars, k + 1, 10 * value + digitValue(chars[k]), TRUE)
    ELSE [value |-> value, any |-> any, next |-> k]

\* The position after the optional space at position k.
skipSpace(chars, k) ==
    IF k <= Len(chars) /\ chars[k] = " " THEN k + 1 ELSE k

\* The time-literal grammar: optional <int>m, optional space, optional
\* <int>s, at least one of them; the total 60 * m + s, or nothing when the
\* text is no time literal.
parseDuration(chars) ==
    LET first == readInt(chars, 1, 0, FALSE)
        unit  == IF first.any /\ first.next <= Len(chars)
                 THEN chars[first.next] ELSE ""
    IN  IF unit = "s"
        THEN IF first.next = Len(chars) THEN {first.value} ELSE {}
        ELSE IF unit = "m"
        THEN LET k == skipSpace(chars, first.next + 1)
                 second == readInt(chars, k, 0, FALSE)
             IN  IF k > Len(chars) THEN {60 * first.value}
                 ELSE IF /\ second.any
                         /\ second.next = Len(chars)
                         /\ chars[second.next] = "s"
                      THEN {60 * first.value + second.value}
                      ELSE {}
        ELSE {}

\* A number of seconds, then its literal, then what the literal parses to.
Literal(stage, seconds, text, parsed) ==
    [stage |-> stage, seconds |-> seconds, text |-> text, parsed |-> parsed]

\* Only `literal` changes.
OnlyLiteral == UNCHANGED <<callbackVars, hostVars, applied>>

FormatLiteral ==
    /\ literal.stage = "seconds"
    /\ literal' = Literal("formatted", literal.seconds,
                          formatTimeLiteral(literal.seconds), {})
    /\ OnlyLiteral

ParseLiteral ==
    /\ literal.stage = "formatted"
    /\ literal' = Literal("parsed", literal.seconds, literal.text,
                          parseDuration(literal.text))
    /\ OnlyLiteral

LiteralInit ==
    /\ \E seconds \in 0 .. MaxSeconds :
          literal = Literal("seconds", seconds, <<>>, {})
    /\ applied = <<>>
    /\ createCallbacks(PlannedWorkout, <<>>)
    /\ HostUnused

LiteralNext ==
    \/ FormatLiteral
    \/ ParseLiteral

LiteralSpec == LiteralInit /\ [][LiteralNext]_vars

\* C20: duration inverse law: for every s in 0..MaxSeconds, the literal that
\* formatting s gives ("<m>m <r>s" when floor(s/60) > 0, otherwise "<r>s",
\* r = s mod 60) parses, by the time-literal grammar, to s exactly.
C20_FormatThenParseIsIdentity ==
    literal.stage = "parsed" => literal.parsed = {literal.seconds}

\* C20's case: 90 seconds became "1m 30s" and were parsed back.
C20_Witness ==
    /\ literal.stage = "parsed"
    /\ literal.seconds = 90
    /\ literal.text = <<"1", "m", " ", "3", "0", "s">>
    /\ literal.parsed = {90}

-----------------------------------------------------------------------------
(* The exercise clock under pause and resume                               *)

\* The clock of this specification runs over 0..MaxClock seconds.
ClockTick ==
    /\ now < MaxClock
    /\ now' = now + 1
    /\ UNCHANGED <<currentParsed, hasPendingChanges, instances, lastWrite>>
    /\ OnlyCallbacks

ClockInit ==
    /\ createCallbacks(PlannedWorkout, <<>>)
    /\ HostUnused
    /\ PureUnused

ClockNext ==
    \/ StartWorkout
    \/ ExerciseFinish
    \/ PauseExercise
    \/ ResumeExercise
    \/ ClockTick

ClockSpec == ClockInit /\ [][ClockNext]_vars

\* What getTimerState reports for the block in the given timers at time t.
Elapsed(timers, t) == timerStateAt(timers[WorkoutId], t)

\* The two elapsed times are the same before and after the step.
ElapsedKept ==
    Elapsed(instances', now') = Elapsed(instances, now)

\* C21: the exercise elapsed time excludes paused time, the workout elapsed
\* time does not.  With a timer running: a second that passes adds one to
\* workoutElapsed, and one to exerciseElapsed unless the timer is paused; a
\* pause or a resume changes neither elapsed time; a pause leaves the timer
\* paused and a resume leaves it running; a pause on a paused timer and a
\* resume on a running timer change nothing; a start begins both at zero.
C21_PausedTimeExcluded ==
    [][ /\ (ClockTick /\ isTimerRunning(instances, WorkoutId))
            => /\ Elapsed(instances', now').workoutElapsed
                    = Elapsed(instances, now).workoutElapsed + 1
               /\ Elapsed(instances', now').exerciseElapsed
                    = Elapsed(instances, now).exerciseElapsed
                        + (IF instances[WorkoutId].isPaused THEN 0 ELSE 1)
        /\ (PauseExercise /\ isTimerRunning(instances, WorkoutId))
            => /\ ElapsedKept
               /\ instances'[WorkoutId].isPaused
               /\ instances[WorkoutId].isPaused => instances' = instances
        /\ (ResumeExercise /\ isTimerRunning(instances, WorkoutId))
            => /\ ElapsedKept
               /\ ~instances'[WorkoutId].isPaused
               /\ ~instances[WorkoutId].isPaused => instances' = instances
        /\ StartWorkout
            => /\ Elapsed(instances', now').workoutElapsed = 0
               /\ Elapsed(instances', now').exerciseElapsed = 0
               /\ ~instances'[WorkoutId].isPaused ]_vars

\* C21's case: the timer ran one second, was paused for two and ran one
\* more: two seconds on the exercise, four on the workout.
C21_Witness ==
    /\ isTimerRunning(instances, WorkoutId)
    /\ now = 4
    /\ ~instances[WorkoutId].isPaused
    /\ instances[WorkoutId].exercisePausedTime = 2
    /\ Elapsed(instances, now).exerciseElapsed = 2
    /\ Elapsed(instances, now).workoutElapsed = 4

-----------------------------------------------------------------------------
(* The exercise timer as the renderer shows it                             *)

\* parser/exercise formatDuration: the compact "Xm Ys" / "Ys" form.
formatDuration(seconds) ==
    LET mins == seconds \div 60
        secs == seconds % 60
    IN  IF mins > 0
        THEN ToString(mins) \o "m " \o ToString(secs) \o "s"
        ELSE ToString(secs) \o "s"

\* Math.abs
abs(n) == IF n < 0 THEN -n ELSE n

\* The timer element: its text, its own classes and the class of the
\* indicator span it holds, if any.
TimerEl(textContent, classList, indicator) ==
    [textContent |-> textContent, classList |-> classList,
     indicator |-> indicator]

\* A timer element as renderExercise creates it: nothing in it.
EmptyTimerEl == TimerEl("", {}, {})

\* main.ts:924-948.  timerEl.empty() removes the children of the element,
\* its classes stay.
updateExerciseTimer(timerEl, timerState, targetDuration) ==
    IF targetDuration # {}
    THEN LET remaining == (CHOOSE t \in targetDuration : TRUE)
                              - timerState.exerciseElapsed
         IN  IF remaining > 0
             THEN TimerEl(formatDuration(remaining), timerEl.classList,
                          {"count-down"})
             ELSE TimerEl(formatDuration(abs(remaining)),
                          timerEl.classList \cup {"overtime"}, {"overtime"})
    ELSE TimerEl(formatDuration(timerState.exerciseElapsed),
                 timerEl.classList, {"count-up"})

\* The elapsed times and the targets the timer is shown for.
ElapsedInputs == 0 .. MaxShown
TargetInputs == {{}} \cup {{t} : t \in 0 .. MaxShown}

UpdateExerciseTimer ==
    /\ \E elapsed \in ElapsedInputs : \E targetDuration \in TargetInputs :
          LET timerState == [workoutElapsed |-> elapsed,
                             exerciseElapsed |-> elapsed]
          IN  applied' = Application("updateExerciseTimer", applied.result, {},
                            <<timerState, targetDuration>>,
                            updateExerciseTimer(applied.result, timerState,
                                                targetDuration))
    /\ OnlyApplied

DisplayInit ==
    /\ applied = Application("none", EmptyTimerEl, {}, <<>>, EmptyTimerEl)
    /\ literal = <<>>
    /\ createCallbacks(PlannedWorkout, <<>>)
    /\ HostUnused

DisplayNext == UpdateExerciseTimer

DisplaySpec == DisplayInit /\ [][DisplayNext]_vars

\* C22: updateExerciseTimer shows the overtime indicator exactly when the
\* exercise has a targetDuration and remaining = targetDuration -
\* exerciseElapsed is below zero; at remaining = 0, and without a
\* targetDuration, it does not.
C22_OvertimeIffRemainingNegative ==
    applied.fn = "updateExerciseTimer"
        => ( "overtime" \in applied.result.indicator
               <=> \E t \in applied.args[2] :
                      t - applied.args[1].exerciseElapsed < 0 )

-----------------------------------------------------------------------------
(* Copy as template                                                        *)

\* main.ts:705-713: the exercises from position k on whose name is not in
\* seenNames, in order.
RECURSIVE uniqueExercises(_, _, _)
uniqueExercises(exercises, k, seenNames) ==
    IF k > Len(exercises) THEN <<>>
    ELSE IF exercises[k].name \in seenNames
         THEN uniqueExercises(exercises, k + 1, seenNames)
         ELSE <<exercises[k]>>
                \o uniqueExercises(exercises, k + 1,
                                   seenNames \cup {exercises[k].name})

\* `exercise.targetDuration` as a condition: set and not 0.
hasTargetDuration(exercise) ==
    exercise.targetDuration # {} /\ exercise.targetDuration # {0}

\* main.ts:719-742: what one parameter appends to the line.  The text is
\* kept as the pieces the code appends: each literal part and each
\* interpolated value is one piece (a formatted duration is one piece per
\* character); the line is their concatenation.
templateParam(exercise, param) ==
    LET isDuration == toLowerCase(param.key) = "duration"
        unit == IF param.unit # {}
                THEN <<" ", CHOOSE u \in param.unit : TRUE>> ELSE <<>>
    IN  <<" | ", param.key, ": ">>
        \o (IF isDuration /\ ~hasTargetDuration(exercise)
            THEN <<>>
            ELSE IF isDuration /\ hasTargetDuration(exercise)
            THEN <<"[">>
                   \o formatTimeLiteral(CHOOSE t \in exercise.targetDuration : TRUE)
                   \o <<"]">> \o unit
            ELSE <<"[", param.value, "]">> \o unit)

\* The pieces of the parameters from position k on.
RECURSIVE templateParams(_, _)
templateParams(exercise, k) ==
    IF k > Len(exercise.params) THEN <<>>
    ELSE templateParam(exercise, exercise.params[k])
            \o templateParams(exercise, k + 1)

\* main.ts:717-744
templateLine(exercise) ==
    <<"- [ ] ", exercise.name>> \o templateParams(exercise, 1)

\* main.ts:690-748: the lines of the template, each a sequence of pieces.
serializeWorkoutAsTemplate(parsed) ==
    LET title == IF parsed.metadata.title # {}
                 THEN << <<"title: ", CHOOSE t \in parsed.metadata.title : TRUE>> >>
                 ELSE <<>>
        unique == uniqueExercises(parsed.exercises, 1, {})
    IN  title
        \o << <<"state: planned">>, <<"startDate:">>, <<"duration:">>, <<"---">> >>
        \o [k \in DOMAIN unique |-> templateLine(unique[k])]

\* The workouts copied as a template: as planned, and completed with a start
\* date and a duration, with and without a title.
TemplateInputs ==
    UNION { { w,
              [w EXCEPT !.metadata.state = "completed",
                        !.metadata.startDate = {formatStartDate(0)},
                        !.metadata.duration = {formatDurationHuman(1)}],
              [w EXCEPT !.metadata.title = {}] } : w \in MutationInputs }

ApplySerializeWorkoutAsTemplate ==
    /\ applied' = Application("serializeWorkoutAsTemplate", applied.parsed, {},
                              <<>>, serializeWorkoutAsTemplate(applied.parsed))
    /\ OnlyApplied

TemplateInit ==
    /\ \E parsed \in TemplateInputs :
          applied = Application("none", parsed, {}, <<>>, parsed)
    /\ literal = <<>>
    /\ createCallbacks(PlannedWorkout, <<>>)
    /\ HostUnused

TemplateNext == ApplySerializeWorkoutAsTemplate

TemplateSpec == TemplateInit /\ [][TemplateNext]_vars

\* The places of a line where a parameter starts.
ParamStarts(line) == {p \in DOMAIN line : line[p] = " | "}

\* The parameter that starts at p has a key, and its value is in brackets;
\* the result is the set of places of the closing bracket (one or none).
ValueEnd(line, p) ==
    {q \in DOMAIN line :
        /\ q > p + 3
        /\ line[p + 2] = ": "
        /\ line[p + 3] = "["
        /\ line[q] = "]"
        /\ \A r \in (p + 1) .. (q - 1) : line[r] \notin {" | ", "]"}}

\* The parameter that starts at p has a key that is "duration".
IsDurationAt(line, p) ==
    p + 1 <= Len(line) /\ toLowerCase(line[p + 1]) = "duration"

\* The first exercise of the list with the given name.
FirstNamed(exercises, name) ==
    exercises[CHOOSE k \in DOMAIN exercises :
                 /\ exercises[k].name = name
                 /\ \A j \in DOMAIN exercises :
                       exercises[j].name = name => k <= j]

\* What C23 says the template `lines` of workout w is.
TemplateContract(w, lines) ==
    LET head == IF w.metadata.title # {} THEN 1 ELSE 0
        exerciseLines == SubSeq(lines, head + 5, Len(lines))
        names == {w.exercises[k].name : k \in DOMAIN w.exercises}
        first(name) == CHOOSE k \in DOMAIN w.exercises :
                          /\ w.exercises[k].name = name
                          /\ \A j \in DOMAIN w.exercises :
                                w.exercises[j].name = name => k <= j
    IN  /\ Len(lines) >= head + 4
        /\ lines[head + 1] = <<"state: planned">>
        /\ lines[head + 2] = <<"startDate:">>
        /\ lines[head + 3] = <<"duration:">>
        /\ lines[head + 4] = <<"---">>
        /\ Len(exerciseLines) = Cardinality(names)
        /\ \A k \in DOMAIN exerciseLines :
              LET line == exerciseLines[k]
              IN  /\ line[1] = "- [ ] "
                  /\ line[2] \in names
                  /\ \A j \in DOMAIN exerciseLines :
                        j < k => first(exerciseLines[j][2]) < first(line[2])
                  /\ \A p \in ParamStarts(line) : ValueEnd(line, p) # {}
                  /\ LET exercise == FirstNamed(w.exercises, line[2])
                     IN  \A p \in ParamStarts(line) :
                            IsDurationAt(line, p)
                              => /\ exercise.targetDuration # {}
                                 /\ \A q \in ValueEnd(line, p) :
                                       parseDuration(SubSeq(line, p + 4, q - 1))
                                           = exercise.targetDuration

\* C23: serializeWorkoutAsTemplate gives a reusable planned workout: the
\* state line is planned, startDate and duration are empty, each exercise
\* name appears once, in the order of its first occurrence, with the pending
\* marker, every parameter in a line has a value in brackets, an exercise
\* without a target duration has no Duration parameter in its line, and a
\* target duration is written as its time literal in brackets.
C23_TemplateIsReusablePlan ==
    applied.fn = "serializeWorkoutAsTemplate"
        => TemplateContract(applied.parsed, applied.result)

-----------------------------------------------------------------------------
(* Parameter edits: kept in memory, written on flush                       *)

\* The renderer reports an edit of a value (main.ts:833-849).
ParamChange ==
    /\ \E i \in ExerciseIndexInputs :
       \E paramKey \in EditedParamKeys : \E newValue \in ParamValueInputs :
          onParamChange(i, paramKey, newValue)
    /\ OnlyCallbacks

\* The renderer asks for the pending edits to be written.
FlushChanges == flushChanges /\ OnlyCallbacks

EditNext ==
    \/ StartWorkout
    \/ FinishWorkout
    \/ ExerciseFinish
    \/ ExerciseSkip
    \/ ExerciseAddSet
    \/ ExerciseAddRest
    \/ ParamChange
    \/ FlushChanges

EditSpec == Init /\ [][EditNext]_vars

\* What C25 says onParamChange(i, paramKey, newValue) does.
ParamChangeEffect(i, paramKey, newValue) ==
    LET current == paramValue(currentParsed, i, paramKey)
    IN  /\ lastWrite' = lastWrite
        /\ current = {newValue}
              => /\ currentParsed' = currentParsed
                 /\ hasPendingChanges' = hasPendingChanges
        /\ current # {newValue}
              => /\ hasPendingChanges'
                 /\ paramValue(currentParsed', i, paramKey)
                        = (IF current = {} THEN {} ELSE {newValue})
        /\ currentParsed' # currentParsed => current # {newValue}

\* C25: onParamChange never writes the file; it changes the workout in
\* memory and sets hasPendingChanges only when the new value differs from the
\* value of the first parameter with exactly that key; onFlushChanges writes
\* the workout in memory if and only if hasPendingChanges is set; every write
\* leaves hasPendingChanges cleared.
C25_EditsWrittenOnFlushOnly ==
    [][ /\ \A i \in ExerciseIndexInputs : \A paramKey \in EditedParamKeys :
           \A newValue \in ParamValueInputs :
              onParamChange(i, paramKey, newValue)
                  => ParamChangeEffect(i, paramKey, newValue)
        /\ flushChanges
              => IF hasPendingChanges
                 THEN /\ lastWrite'.call.by = "onFlushChanges"
                      /\ lastWrite'.newParsed = currentParsed
                 ELSE lastWrite' = lastWrite
        /\ lastWrite' # lastWrite => ~hasPendingChanges' ]_vars

\* C25's case: an edited weight was held in memory and then written by a
\* flush.
C25_Witness ==
    /\ lastWrite.call.by = "onFlushChanges"
    /\ ~hasPendingChanges
    /\ paramValue(lastWrite.newParsed, 0, "Weight") = {"70"}
    /\ currentParsed = lastWrite.newParsed

\* C26: no parameter edit is lost: no step clears hasPendingChanges without
\* writing the workout in memory, edits included, to the file, so that after
\* an edit any run of callbacks that ends with onFlushChanges has written the
\* edited value.
C26_NoEditLost ==
    [][ (hasPendingChanges /\ ~hasPendingChanges')
            => /\ lastWrite'.newParsed = currentParsed'
               /\ lastWrite'.call.by # "none" ]_vars

-----------------------------------------------------------------------------
(* The life of a timer instance                                            *)

\* The id of another workout block of the same note.
OtherWorkoutId == "note.md:12"

\* The plugin's timers when the other block's workout was started and this
\* block's was not.
OtherBlockTimers ==
    OtherWorkoutId :> [workoutStartTime    |-> 0,
                       exerciseStartTime   |-> 0,
                       exercisePausedTime  |-> 0,
                       isPaused            |-> FALSE,
                       pauseStartTime      |-> 0,
                       activeExerciseIndex |-> 0]

\* destroy(): every instance is deleted.
destroy(timers) == [k \in {} |-> timers[k]]

\* main.ts:261-263
onunload ==
    /\ instances' = destroy(instances)
    /\ UNCHANGED <<currentParsed, hasPendingChanges, now, lastWrite>>

Unload == onunload /\ OnlyCallbacks

LifecycleInit ==
    /\ \E parsed \in InitialWorkouts : \E timers \in {<<>>, OtherBlockTimers} :
          createCallbacks(parsed, timers)
    /\ HostUnused
    /\ PureUnused

LifecycleNext ==
    \/ StartWorkout
    \/ FinishWorkout
    \/ ExerciseFinish
    \/ ExerciseSkip
    \/ PauseExercise
    \/ ResumeExercise
    \/ Tick
    \/ Unload

LifecycleSpec == LifecycleInit /\ [][LifecycleNext]_vars

\* C28: a timer instance exists for the block's workout only between its
\* start and its end: after every step a timer instance for it means the
\* workout is started, so once onFinishWorkout, or a finish or skip with no
\* later pending exercise, has made the workout completed, no instance is
\* left for it; and after the plugin is unloaded no instance is left for any
\* workout.
C28_TimerOnlyWhileStarted ==
    [][ /\ isTimerRunning(instances', WorkoutId)
            => currentParsed'.metadata.state = "started"
        /\ currentParsed'.metadata.state = "completed"
            => ~isTimerRunning(instances', WorkoutId)
        /\ onunload => DOMAIN instances' = {} ]_vars

\* C28's case: onFinishWorkout completed the workout while its timer ran;
\* the timer is gone, the other block's timer is still there.
C28_Witness ==
    /\ lastWrite.call.by = "onFinishWorkout"
    /\ lastWrite.timer # {}
    /\ currentParsed = lastWrite.newParsed
    /\ currentParsed.metadata.state = "completed"
    /\ ~isTimerRunning(instances, WorkoutId)
    /\ isTimerRunning(instances, OtherWorkoutId)

====
